---- MODULE Spec2Model ----
(***************************************************************************)
(* Model of the chat-completion clients of super-emma-ext:                 *)
(*   LMStudioClient.sendMessage   (src/lib/lm-studio-client.ts)            *)
(*   OpenAILikeClient.sendMessage (openai-like client)                     *)
(*   OllamaClient.sendMessage     (src/lib/settings.ts)                    *)
(* One call of sendMessage is followed from the fetch to its settlement.   *)
(* The response text is a sequence of lexical tokens, the transport cuts   *)
(* it into chunks at arbitrary token boundaries, and the decoders split,   *)
(* parse and accumulate each chunk as the code does.                       *)
(***************************************************************************)
EXTENDS Integers, Sequences, FiniteSets, TLC

VARIABLES
    client,        \* which client class handles the call
    onToken,       \* TRUE iff the caller supplied an onToken callback
    hasBody,       \* TRUE iff response.body is non-null
    frames,        \* the frames the server emits (source text, before encoding)
    doc,           \* the JSON document of a non-streaming response
    source,        \* response text not yet delivered by reader.read()
    pc,            \* position of the async function sendMessage
    fullContent,   \* let fullContent
    fullReasoning, \* let fullReasoning
    calls,         \* the onToken invocations so far, in order
    log,           \* the lines the decoder has handled so far, in order
    requests,      \* the fetch requests issued so far
    aborted,       \* abortSignal.aborted
    callsAtAbort,  \* number of onToken invocations when abort() was called
    result,        \* the value sendMessage resolved with
    error          \* the name of the error sendMessage rejected with

\* the chat panel (ChatInterface component)
VARIABLES
    messages,           \* useState messages
    isTyping,           \* useState isTyping
    streamingMessage,   \* useState streamingMessage
    streamingReasoning, \* useState streamingReasoning
    streamingMessageId, \* useState streamingMessageId: 0 is null, else the id of
                        \* the assistant message of the request with that number
    abortController,    \* useState abortController: 0 is null, else the controller
    timers,             \* pending setTimeout callbacks with the closures they captured
    reqs,               \* the provider requests issued by handleSendMessage; nothing
                        \* is kept of a settled one
    settledAs,          \* how the request that settled last ended: "done" or the
                        \* name of the error sendMessage rejected with
    ctrlAborted         \* the controllers of unsettled requests on which abort() was called

\* extension storage and the components that keep state in it
VARIABLES
    extension,          \* isExtensionContext(): chrome.storage exists
    chromeLocal,        \* chrome.storage.local: stored key -> value
    localStore,         \* window.localStorage: stored key -> text, <<>> when there is no item
    pending,            \* chrome.storage.onChanged events not yet delivered
    written,            \* per key, what storageUtil wrote last (history variable)
    got,                \* the key and the result of the last storageUtil.get
    legacy,             \* what was stored under the unprefixed keys before the
                        \* prefixed keys were introduced (history variable)
    mgrSettings,        \* SettingsManager.settings
    loaded,             \* the manager's last operation was loadSettings
    deleted,            \* the providers deleted and not added again (history variable)
    tabSettings,        \* SettingsTab: useState settings
    tabListening,       \* SettingsTab is mounted and its onChanged handler registered
    lastSaved,          \* what saveSettings persisted last since the tab was mounted
    sessions,           \* TabSessionsFeature: useState sessions
    featureMounted,     \* TabSessionsFeature is mounted and its listener registered
    savedByPopup        \* the sessions stored by the popup's saveAllTabs (history variable)

\* the page-capture event on its way from the popup to the side panel
VARIABLES
    sent,               \* the popup has called sendEvent('GET_PAGE_MARKDOWN_CONTENT')
    channels,           \* the channels on which the event is still under way
    actionEvent,        \* the side panel's currentEvent, the actionEvent prop of
                        \* ChatInterface: "null" or the object a channel delivered
    clearTimers,        \* pending setTimeout(() => setCurrentEvent(null), 1000)
    effectDeps,         \* <<actionEvent, messages>> of the last run of the effect
    appended            \* how often the effect appended the page message (history variable)

\* the Tab Sessions page of the options page (TabSessionsFeature) with the
\* tabs of its sessions
VARIABLES
    sessionList,        \* useState sessions, every session with its name and tabs
    tabSessions,        \* the value stored under STORAGE_KEYS.TAB_SESSIONS
    filterDomain,       \* useState filterDomain
    deleteDialogOpen,   \* useState deleteDialogOpen
    deleteTarget,       \* useState deleteTarget
    importedIds         \* how many ids importSessions has generated

\* the two chrome.storage areas and localStorage under getAll and clear
VARIABLES
    inExtension,        \* isExtensionContext()
    chromeAreas,        \* chrome.storage.local and chrome.storage.sync
    webItems,           \* window.localStorage: the text of every item
    allResult,          \* what the last getAll resolved with
    lastCall            \* the last call of storageUtil (history variable)

\* the change listeners of storageUtil
VARIABLES
    listeners,          \* this.listeners: the array of listeners of every key
    invoked             \* the listener calls of the last onChanged event, in order

\* the saved chats of ChatStorageManager in chrome.storage.local
VARIABLES
    chatData,           \* the chatKeyIds under which a SavedChatData record is stored
    savedChatList,      \* the list stored under CHAT_LIST_KEY
    generated,          \* how many chatKeyIds generateChatKeyId has returned
    evicted             \* the chats the limit of the list removed (history variable)

streamVars == <<client, onToken, hasBody, frames, doc, source, pc, fullContent,
                fullReasoning, calls, log, requests, aborted, callsAtAbort,
                result, error>>

chatVars == <<messages, isTyping, streamingMessage, streamingReasoning,
              streamingMessageId, abortController, timers, reqs, settledAs, ctrlAborted>>

storeVars == <<extension, chromeLocal, localStore, pending, written, got, legacy,
               mgrSettings, loaded, deleted, tabSettings, tabListening,
               lastSaved, sessions, featureMounted, savedByPopup>>

eventVars == <<sent, channels, actionEvent, clearTimers, effectDeps, appended>>

tabsVars == <<sessionList, tabSessions, filterDomain, deleteDialogOpen,
              deleteTarget, importedIds>>

areaVars == <<inExtension, chromeAreas, webItems, allResult, lastCall>>

listenerVars == <<listeners, invoked>>

savedVars == <<chatData, savedChatList, generated, evicted>>

restVars == <<tabsVars, areaVars, listenerVars, savedVars>>

vars == <<streamVars, chatVars, storeVars, eventVars, restVars>>

\* deleteTarget is null
NoTarget ==
    [type |-> "null", sessionId |-> <<"", 0>>, tabIndex |-> -1, name |-> ""]

\* the Tab Sessions page was not opened
TabsIdle ==
    /\ sessionList = <<>>
    /\ tabSessions = <<>>
    /\ filterDomain = <<>>
    /\ deleteDialogOpen = FALSE
    /\ deleteTarget = NoTarget
    /\ importedIds = 0

\* storageUtil was not called
AreasIdle ==
    /\ inExtension = TRUE
    /\ chromeAreas = <<>>
    /\ webItems = <<>>
    /\ allResult = {}
    /\ lastCall = [op |-> "none", area |-> "local", removed |-> 0]

\* no listener was added
ListenersIdle ==
    /\ listeners = <<>>
    /\ invoked = <<>>

\* no chat was saved
SavedIdle ==
    /\ chatData = {}
    /\ savedChatList = <<>>
    /\ generated = 0
    /\ evicted = {}

RestIdle == TabsIdle /\ AreasIdle /\ ListenersIdle /\ SavedIdle

\* no event was sent
EventIdle ==
    /\ sent = FALSE
    /\ channels = {}
    /\ actionEvent = "null"
    /\ clearTimers = 0
    /\ effectDeps = <<"null", <<>>>>
    /\ appended = 0

\* the chat panel before anything happened in it
ChatIdle ==
    /\ messages = <<>>
    /\ isTyping = FALSE
    /\ streamingMessage = <<>>
    /\ streamingReasoning = <<>>
    /\ streamingMessageId = 0
    /\ abortController = 0
    /\ timers = <<>>
    /\ reqs = <<>>
    /\ settledAs = "none"
    /\ ctrlAborted = {}

\* what a call of sendMessage leaves alone
Others == <<chatVars, storeVars, eventVars, restVars>>

\* what the chat panel leaves alone
ChatOthers == <<streamVars, storeVars, eventVars, restVars>>

\* what the storage operations leave alone
StoreOthers == <<streamVars, chatVars, eventVars, restVars>>

----------------------------------------------------------------------------
(* Bounds *)

MaxFrames == 2

----------------------------------------------------------------------------
(* JavaScript values of the JSON fields.  Strings stand for themselves,    *)
(* "#5" is the number 5 and UNDEF is undefined (an absent field).          *)

UNDEF == "undefined"

NUM5 == "#5"

Strings == {"", "Hel", "lo", "hm"}

\* JavaScript truthiness: if (content), content || ''
Truthy(v) == v \notin {UNDEF, "", "false"}

IsString(v) == v \in Strings

\* string conversion done by  fullContent += content
ToStr(v) == IF v = NUM5 THEN "5" ELSE v

Clients == {"lmstudio", "openailike", "ollama"}

IsSSE(c) == c \in {"lmstudio", "openailike"}

----------------------------------------------------------------------------
(* Wire format.  A token is a pair <<kind, value>>.                        *)

NL == <<"\n", "">>

DATA == <<"data: ", "">>

LB == <<"{", "">>

RB == <<"}", "">>

DONETOK == <<"[DONE]", "">>

JUNK == <<"junk", "">>

FieldNames == {"content", "reasoning_content", "done"}

Frame(k, c, r, d) == [kind |-> k, content |-> c, reasoning |-> r, done |-> d]

Field(name, v) == IF v = UNDEF THEN <<>> ELSE << <<name, v>> >>

\* JSON text of a streamed delta object
EncodeJSON(f) ==
    <<LB>> \o Field("content", f.content)
           \o Field("reasoning_content", f.reasoning)
           \o Field("done", f.done) \o <<RB>>

Payload(f) ==
    CASE f.kind = "json" -> EncodeJSON(f)
      [] f.kind = "junk" -> <<JUNK>>
      [] f.kind = "DONE" -> <<DONETOK>>

\* one frame as the server writes it: an SSE data line or an NDJSON line
EncodeFrame(c, f) ==
    IF IsSSE(c) THEN <<DATA>> \o Payload(f) \o <<NL>>
                ELSE Payload(f) \o <<NL>>

RECURSIVE EncodeFrames(_, _)
EncodeFrames(c, fs) ==
    IF fs = <<>> THEN <<>>
    ELSE EncodeFrame(c, Head(fs)) \o EncodeFrames(c, Tail(fs))

----------------------------------------------------------------------------
(* chunk.split('\n') *)

RECURSIVE SplitFrom(_, _)
SplitFrom(text, cur) ==
    IF text = <<>> THEN <<cur>>
    ELSE IF Head(text) = NL THEN <<cur>> \o SplitFrom(Tail(text), <<>>)
    ELSE SplitFrom(Tail(text), Append(cur, Head(text)))

Split(text) == SplitFrom(text, <<>>)

(* JSON.parse followed by the optional-chaining reads of the fields.       *)
(* ok = FALSE stands for the SyntaxError thrown on text that is not JSON.  *)

FieldOf(body, name) ==
    IF \E i \in 1..Len(body) : body[i][1] = name
    THEN body[CHOOSE i \in 1..Len(body) : body[i][1] = name][2]
    ELSE UNDEF

JSONParse(data) ==
    IF /\ Len(data) >= 2
       /\ data[1] = LB
       /\ data[Len(data)] = RB
       /\ \A i \in 2..(Len(data) - 1) : data[i][1] \in FieldNames
    THEN LET body == SubSeq(data, 2, Len(data) - 1)
         IN  [ok |-> TRUE,
              content   |-> FieldOf(body, "content"),
              reasoning |-> FieldOf(body, "reasoning_content"),
              done      |-> FieldOf(body, "done")]
    ELSE [ok |-> FALSE, content |-> UNDEF, reasoning |-> UNDEF, done |-> UNDEF]

----------------------------------------------------------------------------
(* The decoders.  st is the local state of the read loop:                  *)
(*   fullContent, fullReasoning  the accumulators (a string is the         *)
(*                               sequence of the pieces appended to it)    *)
(*   calls     the onToken invocations                                     *)
(*   log       one entry per line handed to the parser                     *)
(*   returned  the loop was left by a return statement                     *)
(*   threw     an exception escaped the loop                               *)

LoopState(fc, fr, cs, lg) ==
    [fullContent |-> fc, fullReasoning |-> fr, calls |-> cs, log |-> lg,
     returned |-> FALSE, threw |-> FALSE]

\* if (content || reasoning)
BearingMut(content, reasoning) == Truthy(content)

Bearing(content, reasoning) == Truthy(content) \/ Truthy(reasoning)

\* onToken(content || '', reasoning)
OnTokenArgs(content, reasoning) ==
    [token |-> IF Truthy(content) THEN content ELSE "", reasoning |-> reasoning]

\* the body of the try block after JSON.parse succeeded
Accumulate(st, p) ==
    [st EXCEPT
       !.fullContent   = IF Truthy(p.content)
                         THEN Append(@, ToStr(p.content)) ELSE @,
       !.fullReasoning = IF Truthy(p.reasoning)
                         THEN Append(@, ToStr(p.reasoning)) ELSE @,
       !.calls = IF Bearing(p.content, p.reasoning)
                 THEN Append(@, OnTokenArgs(p.content, p.reasoning)) ELSE @,
       !.log   = Append(@, Frame("json", p.content, p.reasoning, p.done))]

\* the catch block around JSON.parse: the error is swallowed
ParseFailureMut(st) ==
    [st EXCEPT !.threw = TRUE,
               !.log = Append(@, Frame("fail", UNDEF, UNDEF, UNDEF))]

ParseFailure(st) ==
    [st EXCEPT !.log = Append(@, Frame("fail", UNDEF, UNDEF, UNDEF))]

\* if (data === '[DONE]') continue;
OnSentinel(st) ==
    [st EXCEPT !.log = Append(@, Frame("DONE", UNDEF, UNDEF, UNDEF))]

\* LMStudioClient / OpenAILikeClient: body of  for (const line of lines)
SSELine(st, line) ==
    IF line # <<>> /\ Head(line) = DATA
    THEN LET data == Tail(line)
         IN  IF data = <<DONETOK>> THEN OnSentinel(st)
             ELSE LET p == JSONParse(data)
                  IN  IF p.ok THEN Accumulate(st, p) ELSE ParseFailure(st)
    ELSE st

\* if (data.done) return {...}
OnDoneMut(st, p) == st

OnDone(st, p) == IF Truthy(p.done) THEN [st EXCEPT !.returned = TRUE] ELSE st

\* OllamaClient: body of  for (const line of lines)
OllamaLine(st, line) ==
    LET p == JSONParse(line)
    IN  IF p.ok THEN OnDone(Accumulate(st, p), p) ELSE ParseFailure(st)

\* .filter(line => line.trim())
NonBlank(line) == line # <<>>

\* chunk.split('\n'), for Ollama followed by the filter
Lines(c, chunk) ==
    IF IsSSE(c) THEN Split(chunk) ELSE SelectSeq(Split(chunk), NonBlank)

RECURSIVE ProcessLines(_, _, _)
ProcessLines(c, st, lines) ==
    IF lines = <<>> \/ st.returned \/ st.threw THEN st
    ELSE ProcessLines(c,
                      IF IsSSE(c) THEN SSELine(st, Head(lines))
                                  ELSE OllamaLine(st, Head(lines)),
                      Tail(lines))

\* one iteration of  while (true)  after reader.read() delivered a chunk
ProcessChunk(c, st, chunk) == ProcessLines(c, st, Lines(c, chunk))

----------------------------------------------------------------------------
(* Results *)

Undefined == [defined |-> FALSE, value |-> <<>>]

Defined(s) == [defined |-> TRUE, value |-> s]

\* fullReasoning || undefined
OrUndefined(s) == IF s # <<>> THEN Defined(s) ELSE Undefined

NoResult == [content |-> <<>>, reasoning_content |-> Undefined]

\* return { content: fullContent, reasoning_content: fullReasoning || undefined }
StreamResult(fc, fr) == [content |-> fc, reasoning_content |-> OrUndefined(fr)]

\* a string value as the sequence of its pieces
AsString(v) == IF v = "" THEN <<>> ELSE <<v>>

AsMaybe(v) == IF v = UNDEF THEN Undefined ELSE Defined(AsString(v))

----------------------------------------------------------------------------
(* What the server can answer *)

SSEFrames ==
    { Frame("json", "Hel", UNDEF, UNDEF),
      Frame("json", "lo", "hm", UNDEF),
      Frame("json", UNDEF, "hm", UNDEF),
      Frame("json", "", "", UNDEF),
      Frame("json", NUM5, UNDEF, UNDEF),
      Frame("junk", UNDEF, UNDEF, UNDEF),
      Frame("DONE", UNDEF, UNDEF, UNDEF) }

NDJSONFrames ==
    { Frame("json", "Hel", UNDEF, "false"),
      Frame("json", "lo", "hm", "true"),
      Frame("json", UNDEF, "hm", UNDEF),
      Frame("json", "", "", UNDEF),
      Frame("json", NUM5, UNDEF, UNDEF),
      Frame("junk", UNDEF, UNDEF, UNDEF),
      Frame("json", UNDEF, UNDEF, "true") }

FramesOf(c) == IF IsSSE(c) THEN SSEFrames ELSE NDJSONFrames

FrameSeqs(c) == UNION { [1..n -> FramesOf(c)] : n \in 0..MaxFrames }

Doc(s, c, r) == [shape |-> s, content |-> c, reasoning |-> r]

InvalidDoc == Doc("invalid", UNDEF, UNDEF)

\* not JSON, {}, {"choices":[]}, {"choices":[{}]} or {"message":{}},
\* and a document with a message
Docs ==
    { Doc(s, UNDEF, UNDEF) :
        s \in {"invalid", "nochoices", "emptychoices", "nomessage"} }
    \cup { Doc("message", c, r) : c \in {UNDEF, "", "Hel"}, r \in {UNDEF, "", "hm"} }

(***************************************************************************)
(* Values kept in storage.  A JavaScript value is a record of its type,    *)
(* its text (of a string, number or boolean; the theme of a settings       *)
(* object), the provider ids of a settings object and the session ids of   *)
(* a session array.  A string such as a key or a JSON text is a sequence   *)
(* of pieces.                                                              *)
(***************************************************************************)

JS(type, text, providers, list) ==
    [type |-> type, text |-> text, providers |-> providers, list |-> list]

JUndefined == JS("undefined", "", {}, <<>>)
JNull == JS("null", "", {}, <<>>)
JString(t) == JS("string", t, {}, <<>>)
JNumber(t) == JS("number", t, {}, <<>>)
JBoolean(t) == JS("boolean", t, {}, <<>>)

\* an ExtensionSettings object: { providers, theme }
Settings(ps, theme) == JS("object", theme, ps, <<>>)

\* a TabSession[] array
Sessions(list) == JS("array", "", {}, list)

\* history values: the key was never written, the key was removed
Never == JS("never", "", {}, <<>>)
Removed == JS("removed", "", {}, <<>>)

\* JavaScript truthiness of a stored value
JTruthy(v) ==
    /\ v.type \notin {"undefined", "null"}
    /\ ~(v.type = "string" /\ v.text = "")
    /\ ~(v.type = "number" /\ v.text = "0")
    /\ ~(v.type = "boolean" /\ v.text = "false")

\* v ?? null
Nullish(v) == IF v.type \in {"undefined", "null"} THEN JNull ELSE v

\* keyPrefix
KeyPrefix == "lazyloadbox-emma-ext-"

\* STORAGE_KEYS
EXTENSION_SETTINGS == <<"extension-settings">>
THEME == <<"browser-ext-theme">>
TAB_SESSIONS == <<"tabSessions">>

\* the keys the components pass to storageUtil
RawKeys == {EXTENSION_SETTINGS, THEME, TAB_SESSIONS}

GetKeyMut(key) == key

\* getKey: `${this.keyPrefix}${key}`
GetKey(key) == <<KeyPrefix>> \o key

StartsWithPrefixMut(key) == TRUE

\* prefixedKey.startsWith(this.keyPrefix)
StartsWithPrefix(key) == key # <<>> /\ key[1] = KeyPrefix

\* getOriginalKey: prefixedKey.replace(this.keyPrefix, ''), which drops the
\* first occurrence of the prefix
GetOriginalKey(key) ==
    LET at == {i \in DOMAIN key : key[i] = KeyPrefix} IN
    IF at = {} THEN key
    ELSE LET first == CHOOSE i \in at : \A j \in at : i <= j
         IN  SubSeq(key, 1, first - 1) \o SubSeq(key, first + 1, Len(key))

\* the keys an item can be stored under
StoredKeys == RawKeys \cup {<<KeyPrefix>> \o k : k \in RawKeys}

\* defaultProviders and defaultSettings
DefaultProviders == {"lmstudio", "ollama"}
DefaultSettings == Settings(DefaultProviders, "system")

\* the initial state of SettingsTab: { providers: {}, theme: 'system' }
EmptySettings == Settings({}, "system")

\* storage holds nothing and no component is mounted
StoreIdle ==
    /\ extension = TRUE
    /\ chromeLocal = [k \in StoredKeys |-> JUndefined]
    /\ localStore = [k \in StoredKeys |-> <<>>]
    /\ pending = <<>>
    /\ written = [k \in RawKeys |-> Never]
    /\ got = [key |-> <<>>, value |-> JNull]
    /\ legacy = [k \in RawKeys |-> JUndefined]
    /\ mgrSettings = DefaultSettings
    /\ loaded = FALSE
    /\ deleted = {}
    /\ tabSettings = EmptySettings
    /\ tabListening = FALSE
    /\ lastSaved = Never
    /\ sessions = <<>>
    /\ featureMounted = FALSE
    /\ savedByPopup = {}


----------------------------------------------------------------------------
(* sendMessage *)

Init ==
    /\ client \in Clients
    /\ onToken \in BOOLEAN
    /\ hasBody \in BOOLEAN
    /\ IF onToken /\ hasBody
       THEN frames \in FrameSeqs(client) /\ doc = InvalidDoc
       ELSE frames = <<>> /\ doc \in (IF hasBody THEN Docs ELSE {InvalidDoc})
    /\ source = EncodeFrames(client, frames)
    /\ pc = "idle"
    /\ fullContent = <<>>
    /\ fullReasoning = <<>>
    /\ calls = <<>>
    /\ log = <<>>
    /\ requests = <<>>
    /\ aborted = FALSE
    /\ callsAtAbort = 0
    /\ result = NoResult
    /\ error = "none"
    /\ ChatIdle
    /\ StoreIdle
    /\ EventIdle
    /\ RestIdle

Pending == {"fetch", "text", "read", "json"}

\* stream: !!onToken
StreamFlagMut(cb) == TRUE

StreamFlag(cb) == cb

\* signal: abortSignal  -- an aborted signal fails the pending await
CancelledMut == FALSE

Cancelled == aborted

\* catch (error) { console.error(...); throw error; }
RejectMut(e) ==
    /\ pc' = IF Len(requests) < 2 THEN "idle" ELSE "rejected"
    /\ error' = e
    /\ UNCHANGED <<client, onToken, hasBody, frames, doc, source, fullContent,
                   fullReasoning, calls, log, requests, aborted, callsAtAbort,
                   result>>
    /\ UNCHANGED Others

Reject(e) ==
    /\ pc' = "rejected"
    /\ error' = e
    /\ UNCHANGED <<client, onToken, hasBody, frames, doc, source, fullContent,
                   fullReasoning, calls, log, requests, aborted, callsAtAbort,
                   result>>
    /\ UNCHANGED Others

\* const response = await fetch(url, {method: 'POST', body, signal})
Call ==
    /\ pc = "idle"
    /\ pc' = "fetch"
    /\ requests' = Append(requests, [stream |-> StreamFlag(onToken)])
    /\ UNCHANGED <<client, onToken, hasBody, frames, doc, source, fullContent,
                   fullReasoning, calls, log, aborted, callsAtAbort, result,
                   error>>
    /\ UNCHANGED Others

\* fetch rejects: the network failed
FetchNetworkError ==
    /\ pc = "fetch"
    /\ ~Cancelled
    /\ Reject("NetworkError")

\* if (!response.ok) throw new Error(...); the OpenAI-like client first
\* awaits response.text()
FetchHttpError ==
    /\ pc = "fetch"
    /\ ~Cancelled
    /\ IF client = "openailike"
       THEN /\ pc' = "text"
            /\ UNCHANGED <<client, onToken, hasBody, frames, doc, source,
                           fullContent, fullReasoning, calls, log, requests,
                           aborted, callsAtAbort, result, error>>
            /\ UNCHANGED Others
       ELSE Reject("HTTPError")

TextResolve ==
    /\ pc = "text"
    /\ ~Cancelled
    /\ Reject("HTTPError")

\* response.ok: if (onToken && response.body) { reader = ...; let fullContent = '' ...
FetchOk ==
    /\ pc = "fetch"
    /\ ~Cancelled
    /\ pc' = IF onToken /\ hasBody THEN "read" ELSE "json"
    /\ fullContent' = <<>>
    /\ fullReasoning' = <<>>
    /\ UNCHANGED <<client, onToken, hasBody, frames, doc, source, calls, log,
                   requests, aborted, callsAtAbort, result, error>>
    /\ UNCHANGED Others

\* const { done, value } = await reader.read(); done = false; the chunk is decoded,
\* split and every line of it handled before the next await
ReadChunk ==
    /\ pc = "read"
    /\ ~Cancelled
    /\ source # <<>>
    /\ \E n \in 1..Len(source) :
         LET chunk == SubSeq(source, 1, n)
             st == ProcessChunk(client,
                                LoopState(fullContent, fullReasoning, calls, log),
                                chunk)
         IN  /\ source' = SubSeq(source, n + 1, Len(source))
             /\ fullContent' = st.fullContent
             /\ fullReasoning' = st.fullReasoning
             /\ calls' = st.calls
             /\ log' = st.log
             /\ pc' = IF st.threw THEN "rejected"
                      ELSE IF st.returned THEN "resolved" ELSE "read"
             /\ error' = IF st.threw THEN "SyntaxError" ELSE error
             /\ result' = IF st.returned /\ ~st.threw
                          THEN StreamResult(st.fullContent, st.fullReasoning)
                          ELSE result
    /\ UNCHANGED <<client, onToken, hasBody, frames, doc, requests, aborted,
                   callsAtAbort>>
    /\ UNCHANGED Others

\* reader.read() reports done: break, then return the accumulated result
ReadDone ==
    /\ pc = "read"
    /\ ~Cancelled
    /\ source = <<>>
    /\ pc' = "resolved"
    /\ result' = StreamResult(fullContent, fullReasoning)
    /\ UNCHANGED <<client, onToken, hasBody, frames, doc, source, fullContent,
                   fullReasoning, calls, log, requests, aborted, callsAtAbort,
                   error>>
    /\ UNCHANGED Others

\* data.choices[0]?.message  (Ollama: data.message)
MessageOf(d) == d.shape = "message"

\* content: ...?.message?.content || ''
ContentOrEmpty(v) == IF Truthy(v) THEN <<ToStr(v)>> ELSE <<>>

\* const data = await response.json(); return { content, reasoning_content }
JsonResolve ==
    /\ pc = "json"
    /\ ~Cancelled
    /\ IF doc.shape = "invalid" THEN Reject("SyntaxError")
       ELSE IF doc.shape = "nochoices" /\ IsSSE(client) THEN Reject("TypeError")
       ELSE /\ pc' = "resolved"
            /\ result' =
                 [content |-> ContentOrEmpty(IF MessageOf(doc) THEN doc.content
                                             ELSE UNDEF),
                  reasoning_content |-> AsMaybe(IF MessageOf(doc) THEN doc.reasoning
                                                ELSE UNDEF)]
            /\ UNCHANGED <<client, onToken, hasBody, frames, doc, source,
                           fullContent, fullReasoning, calls, log, requests,
                           aborted, callsAtAbort, error>>
            /\ UNCHANGED Others

\* the caller calls abortController.abort() while the request is in flight
Abort ==
    /\ pc \in Pending
    /\ ~aborted
    /\ aborted' = TRUE
    /\ callsAtAbort' = Len(calls)
    /\ UNCHANGED <<client, onToken, hasBody, frames, doc, source, pc,
                   fullContent, fullReasoning, calls, log, requests, result,
                   error>>
    /\ UNCHANGED Others

\* the pending fetch / read / json / text rejects with an AbortError
AbortReject ==
    /\ pc \in Pending
    /\ Cancelled
    /\ Reject("AbortError")

Next ==
    \/ Call
    \/ FetchNetworkError
    \/ FetchHttpError
    \/ TextResolve
    \/ FetchOk
    \/ ReadChunk
    \/ ReadDone
    \/ JsonResolve
    \/ Abort
    \/ AbortReject

Spec == Init /\ [][Next]_vars

----------------------------------------------------------------------------
(* Vocabulary of the properties *)

Streaming == onToken /\ hasBody

NonEmpty(v) == v # UNDEF /\ v # ""

StringOrAbsent(v) == v = UNDEF \/ IsString(v)

\* the concatenation of the non-empty content fields of a sequence of frames
RECURSIVE ConcatContent(_)
ConcatContent(fs) ==
    IF fs = <<>> THEN <<>>
    ELSE (IF Head(fs).kind = "json" /\ NonEmpty(Head(fs).content)
          THEN <<ToStr(Head(fs).content)>> ELSE <<>>) \o ConcatContent(Tail(fs))

RECURSIVE ConcatReasoning(_)
ConcatReasoning(fs) ==
    IF fs = <<>> THEN <<>>
    ELSE (IF Head(fs).kind = "json" /\ NonEmpty(Head(fs).reasoning)
          THEN <<ToStr(Head(fs).reasoning)>> ELSE <<>>) \o ConcatReasoning(Tail(fs))

\* the onToken invocations owed to a sequence of parsed frames
RECURSIVE ExpectedCalls(_)
ExpectedCalls(fs) ==
    IF fs = <<>> THEN <<>>
    ELSE (IF Head(fs).kind = "json"
             /\ (NonEmpty(Head(fs).content) \/ NonEmpty(Head(fs).reasoning))
          THEN <<[token |-> IF NonEmpty(Head(fs).content)
                            THEN Head(fs).content ELSE "",
                  reasoning |-> Head(fs).reasoning]>>
          ELSE <<>>) \o ExpectedCalls(Tail(fs))

WellFormedSSE(fs) ==
    /\ Len(fs) >= 1
    /\ fs[Len(fs)].kind = "DONE"
    /\ \A i \in 1..(Len(fs) - 1) :
         /\ fs[i].kind = "json"
         /\ StringOrAbsent(fs[i].content)
         /\ StringOrAbsent(fs[i].reasoning)

IsDataLine(line) == line # <<>> /\ Head(line) = DATA

\* the lines of a chunk that the decoder of client c hands to its parser
CandidateLines(c, chunk) ==
    IF IsSSE(c) THEN SelectSeq(Split(chunk), IsDataLine)
                ELSE SelectSeq(Split(chunk), NonBlank)

\* the log entries added by the current step
NewEntries == SubSeq(log', Len(log) + 1, Len(log'))

----------------------------------------------------------------------------
(* C1: for a well-formed SSE frame sequence ending in [DONE], the SSE      *)
(* clients resolve with content equal to the in-order concatenation of the *)
(* non-empty delta.content fields and reasoning_content equal to that of   *)
(* the non-empty delta.reasoning_content fields.                           *)
C1_ContentIsConcatenation ==
    (pc = "resolved" /\ Streaming /\ IsSSE(client) /\ WellFormedSSE(frames))
    => /\ result.content = ConcatContent(frames)
       /\ result.reasoning_content = OrUndefined(ConcatReasoning(frames))

(* C2: the result and the onToken invocations do not depend on how the     *)
(* response text is divided into chunks: they are those of the text        *)
(* delivered as one chunk.                                                 *)
C2_ChunkingIndependent ==
    (pc = "resolved" /\ Streaming)
    => LET whole == ProcessChunk(client, LoopState(<<>>, <<>>, <<>>, <<>>),
                                 EncodeFrames(client, frames))
       IN  /\ result = StreamResult(whole.fullContent, whole.fullReasoning)
           /\ calls = whole.calls

(* C3: in the SSE clients nothing is handed to the parser after a [DONE]   *)
(* frame: the sentinel is the last line the decoder handles.               *)
C3_DoneEndsStream ==
    IsSSE(client)
    => \A i \in 1..Len(log) : log[i].kind = "DONE" => i = Len(log)

(* C4: in the Ollama client a parsed frame with done = true is the last    *)
(* line handled: the call is resolved at once, with that frame's content   *)
(* and reasoning included in the result and passed to onToken.             *)
C4_OllamaStopsAtDone ==
    client = "ollama"
    => \A i \in 1..Len(log) :
         (log[i].kind = "json" /\ log[i].done = "true")
         => /\ i = Len(log)
            /\ pc = "resolved"
            /\ result = StreamResult(ConcatContent(log), ConcatReasoning(log))
            /\ (NonEmpty(log[i].content)
                  => result.content[Len(result.content)] = log[i].content)
            /\ ((NonEmpty(log[i].content) \/ NonEmpty(log[i].reasoning))
                  => calls[Len(calls)] = [token |-> IF NonEmpty(log[i].content)
                                                    THEN log[i].content ELSE "",
                                          reasoning |-> log[i].reasoning])

C4_Witness ==
    /\ client = "ollama"
    /\ pc = "resolved"
    /\ source # <<>>
    /\ Len(log) >= 1
    /\ log[Len(log)].done = "true"
    /\ log[Len(log)].content = "lo"

(* C5: a chunk never makes a streaming call reject; the lines of it that   *)
(* are not valid JSON add nothing to the accumulators and cause no onToken *)
(* invocation, and every candidate line of the chunk is still handled (in  *)
(* the Ollama client up to a frame with done = true).                      *)
C5_Step ==
    (pc = "read" /\ source' # source)
    => LET chunk == SubSeq(source, 1, Len(source) - Len(source'))
       IN  /\ pc' \in {"read", "resolved"}
           /\ error' = error
           /\ fullContent' = fullContent \o ConcatContent(NewEntries)
           /\ fullReasoning' = fullReasoning \o ConcatReasoning(NewEntries)
           /\ calls' = calls \o ExpectedCalls(NewEntries)
           /\ IF pc' = "read" \/ IsSSE(client)
              THEN Len(NewEntries) = Len(CandidateLines(client, chunk))
              ELSE Len(NewEntries) <= Len(CandidateLines(client, chunk))

C5_MalformedSkipped == [][C5_Step]_vars

C5_Witness ==
    /\ pc = "resolved"
    /\ Len(log) = 2
    /\ log[1].kind = "fail"
    /\ log[2].kind = "json"
    /\ calls # <<>>

(* C6: once the abort signal is triggered while the call is in flight, the *)
(* call never resolves, it rejects with an AbortError only, and onToken    *)
(* has been invoked exactly once per content-bearing frame parsed before   *)
(* the abort and is never invoked afterwards.                              *)
C6_AbortCancels ==
    aborted
    => /\ pc \in Pending \cup {"rejected"}
       /\ (pc = "rejected" => error = "AbortError")
       /\ result = NoResult
       /\ Len(calls) = callsAtAbort
       /\ Len(calls) = Len(ExpectedCalls(log))

C6_Witness ==
    /\ aborted
    /\ pc = "rejected"
    /\ source # <<>>
    /\ callsAtAbort = 1

(* C7: the onToken invocations are, in order, exactly one per parsed frame *)
(* whose content or reasoning is non-empty, each with that frame's own     *)
(* content (or the empty string) and its own reasoning (or undefined).     *)
C7_OnTokenPerFrame == calls = ExpectedCalls(log)

C7_Witness ==
    /\ Len(log) = 2
    /\ log[1].kind = "json" /\ log[1].content = "" /\ log[1].reasoning = ""
    /\ calls = <<[token |-> "", reasoning |-> "hm"]>>

(* C8: a content or reasoning field that is not a string is treated as the *)
(* empty string: nothing is appended for it and it triggers no onToken.    *)
C8_NonStringIgnored ==
    \A i \in 1..Len(log) :
      (log[i].kind = "json" /\ ~StringOrAbsent(log[i].content))
      => /\ ToStr(log[i].content) \notin { fullContent[k] : k \in 1..Len(fullContent) }
         /\ log[i].content \notin { calls[k].token : k \in 1..Len(calls) }

C10_TransportFailureRejects ==
    /\ Len(requests) <= 1
    /\ (error # "none" => pc = "rejected")
    /\ (error \in {"NetworkError", "HTTPError"}
          => /\ result = NoResult
             /\ calls = <<>>
             /\ Len(requests) = 1)

C10_Witness ==
    /\ Streaming
    /\ pc = "rejected"
    /\ error = "HTTPError"
    /\ client = "openailike"


(***************************************************************************)
(* The chat panel: ChatInterface.  A React render is a snapshot of the     *)
(* state; a callback created in a render reads that render's messages,     *)
(* isTyping and abortController, while a functional update                 *)
(* (setMessages(prev => ...)) reads the current state.  Texts are          *)
(* sequences of pieces, '' is <<>> and += is \o.                           *)
(***************************************************************************)

\* at most this many provider requests are issued in one run
MaxRequests == 2

\* at most this many tokens are streamed to one request
MaxTokens == 1

\* what the user types
UserInputs == {<<"q1">>}

\* a message typed by the user or answered by the provider: no type, no metadata
Msg(role, content) ==
    [role |-> role, content |-> content, type |-> UNDEF, url |-> UNDEF]

\* the names of the errors a failed sendMessage rejects with: fetch's
\* TypeError, the clients' Error for an HTTP status or a missing body
Failures == {"TypeError", "Error"}

\* the text of the generic error message
ErrorText == <<"Sorry, I encountered an error">>

\* the chat that handleLoadChat reads from storage
SavedChat ==
    << Msg("user", <<"q1">>), Msg("assistant", <<"t">>),
       Msg("user", <<"q2">>), Msg("assistant", <<"t">>) >>

IsPrefix(s, t) == Len(s) <= Len(t) /\ SubSeq(t, 1, Len(s)) = s

\* messages.map(msg => ({role, content})) followed by {role: 'user', content}
ChatMessages(ms, content) ==
    Append([k \in 1..Len(ms) |-> [role |-> ms[k].role, content |-> ms[k].content]],
           [role |-> "user", content |-> content])

\* controller.abort() was called on the controller of request i
Aborted(i) == reqs[i].ctrl \in ctrlAborted

\* request i is still served by the provider
Live(i) == reqs[i].status = "inflight" /\ ~Aborted(i)

\* the body of handleSendMessage up to the await, in a closure that captured
\* cMessages and cIsTyping; expected is a history variable: the chat as it
\* stood when the request was asked for
HandleSendMessage(cMessages, cIsTyping, content, origin, expected) ==
    IF cIsTyping
       THEN UNCHANGED <<messages, isTyping, streamingMessage,
                        streamingReasoning, streamingMessageId,
                        abortController, reqs>>
       ELSE /\ abortController' = Len(reqs) + 1
            /\ streamingMessageId' = Len(reqs) + 1
            /\ messages' = Append(messages, Msg("user", content))
            /\ isTyping' = TRUE
            /\ streamingMessage' = <<>>
            /\ streamingReasoning' = <<>>
            /\ reqs' = Append(reqs,
                   [history |-> ChatMessages(cMessages, content),
                    ctrl |-> Len(reqs) + 1,
                    fullResponse |-> <<>>,
                    fullReasoning |-> <<>>,
                    status |-> "inflight",
                    origin |-> origin,
                    expected |-> expected])

\* request i settles: the promise of sendMessage resolves ("done") or
\* rejects with an error of that name
Settled(i, outcome) ==
    /\ reqs' = [reqs EXCEPT ![i] = [history |-> <<>>, ctrl |-> reqs[i].ctrl,
                                    fullResponse |-> <<>>, fullReasoning |-> <<>>,
                                    status |-> "settled", origin |-> "",
                                    expected |-> <<>>]]
    /\ settledAs' = outcome
    /\ ctrlAborted' = ctrlAborted \ {reqs[i].ctrl}

FinallyMut ==
    /\ streamingMessage' = <<>>
    /\ streamingReasoning' = <<>>
    /\ streamingMessageId' = 0
    /\ abortController' = 0
    /\ UNCHANGED isTyping

\* the finally block of handleSendMessage
Finally ==
    /\ isTyping' = FALSE
    /\ streamingMessage' = <<>>
    /\ streamingReasoning' = <<>>
    /\ streamingMessageId' = 0
    /\ abortController' = 0

ShowsErrorMut(name) == TRUE

\* the catch block's test: error.name !== 'AbortError'
ShowsError(name) == name # "AbortError"

\* the catch block of handleSendMessage
Catch(name) ==
    messages' = IF ShowsError(name)
                   THEN Append(messages, Msg("assistant", ErrorText))
                   ELSE messages

\* the index of the nearest user message before position i, 0 if none
PreviousUser(ms, i) ==
    LET us == {k \in 1..(i - 1) : ms[k].role = "user"}
    IN  IF us = {} THEN 0 ELSE CHOOSE k \in us : \A j \in us : j <= k

\* messages.slice(0, index) with the 0-based index of the message at position u
SliceBefore(ms, u) == SubSeq(ms, 1, u - 1)

\* setTimeout(() => handleSendMessage(userContent), 100) in the render that
\* holds messages and isTyping
Timer(content, expected) ==
    [content |-> content, messages |-> messages, isTyping |-> isTyping,
     expected |-> expected]

\* no rejection is pending: abort() rejects the promise of sendMessage in
\* microtasks, so the catch and finally blocks of the aborted request run
\* before the next event, timer or chunk is handled
Quiet == ctrlAborted = {}

\* the bound on requests, counting the ones a pending timer will ask for
Room == Len(reqs) + Len(timers) < MaxRequests

\* the user submits the chat input (enabled while not typing)
Send ==
    /\ Quiet
    /\ Room
    /\ ~isTyping
    /\ \E content \in UserInputs :
          HandleSendMessage(messages, isTyping, content, "send",
                            ChatMessages(messages, content))
    /\ UNCHANGED <<timers, settledAs, ctrlAborted>>
    /\ UNCHANGED ChatOthers

\* the user clicks Regenerate on the assistant message at position i
RegenerateClick ==
    /\ Quiet
    /\ Room
    /\ ~isTyping
    /\ \E i \in 1..Len(messages) :
          LET u == PreviousUser(messages, i) IN
          /\ messages[i].role = "assistant"
          /\ messages[i].content # <<>>
          /\ u # 0
          /\ messages' = SliceBefore(messages, u)
          /\ timers' = Append(timers,
                 Timer(messages[u].content,
                       ChatMessages(SliceBefore(messages, u), messages[u].content)))
    /\ UNCHANGED <<isTyping, streamingMessage, streamingReasoning,
                   streamingMessageId, abortController, reqs, settledAs,
                   ctrlAborted>>
    /\ UNCHANGED ChatOthers

\* the user clicks Regenerate-from-here on the user message at position i
RegenerateFromHereClick ==
    /\ Quiet
    /\ Room
    /\ \E i \in 1..Len(messages) :
          /\ messages[i].role = "user"
          /\ messages' = SliceBefore(messages, i)
          /\ timers' = Append(timers,
                 Timer(messages[i].content,
                       ChatMessages(SliceBefore(messages, i), messages[i].content)))
    /\ UNCHANGED <<isTyping, streamingMessage, streamingReasoning,
                   streamingMessageId, abortController, reqs, settledAs,
                   ctrlAborted>>
    /\ UNCHANGED ChatOthers

\* the 100 ms timer of a regenerate click fires
TimerFire ==
    /\ Quiet
    /\ timers # <<>>
    /\ LET t == Head(timers) IN
          HandleSendMessage(t.messages, t.isTyping, t.content, "regenerate",
                            t.expected)
    /\ timers' = Tail(timers)
    /\ UNCHANGED <<settledAs, ctrlAborted>>
    /\ UNCHANGED ChatOthers

\* the provider streams one token to request i: the onToken callback
Token ==
    \E i \in 1..Len(reqs) :
       /\ Quiet
       /\ Live(i)
       /\ Len(reqs[i].fullResponse) + Len(reqs[i].fullReasoning) < MaxTokens
       /\ \/ /\ reqs' = [reqs EXCEPT ![i].fullResponse = @ \o <<"t">>]
             /\ streamingMessage' = reqs'[i].fullResponse
             /\ UNCHANGED streamingReasoning
          \/ /\ reqs' = [reqs EXCEPT ![i].fullReasoning = @ \o <<"r">>]
             /\ streamingReasoning' = reqs'[i].fullReasoning
             /\ UNCHANGED streamingMessage
       /\ UNCHANGED <<messages, isTyping, streamingMessageId, abortController,
                      timers, settledAs, ctrlAborted>>
       /\ UNCHANGED ChatOthers

\* sendMessage resolves: the assistant message is appended
Resolve ==
    \E i \in 1..Len(reqs) :
       /\ Quiet
       /\ Live(i)
       /\ Settled(i, "done")
       /\ messages' = Append(messages, Msg("assistant", reqs[i].fullResponse))
       /\ Finally
       /\ UNCHANGED timers
       /\ UNCHANGED ChatOthers

\* sendMessage rejects with a transport or provider failure
Fail ==
    \E i \in 1..Len(reqs), name \in Failures :
       /\ Quiet
       /\ Live(i)
       /\ Settled(i, name)
       /\ Catch(name)
       /\ Finally
       /\ UNCHANGED timers
       /\ UNCHANGED ChatOthers

\* sendMessage rejects because its signal was aborted
AbortSettle ==
    \E i \in 1..Len(reqs) :
       /\ reqs[i].status = "inflight"
       /\ Aborted(i)
       /\ Settled(i, "AbortError")
       /\ Catch("AbortError")
       /\ Finally
       /\ UNCHANGED timers
       /\ UNCHANGED ChatOthers

\* abortController.abort() when there is a controller; aborting the
\* controller of a settled request has no effect
AbortCurrent(ctrl) ==
    ctrlAborted' = IF ctrl # 0 /\ reqs[ctrl].status = "inflight"
                      THEN ctrlAborted \cup {ctrl}
                      ELSE ctrlAborted

\* handleCancel, from the Cancel button of the streaming card
Cancel ==
    /\ Quiet
    /\ isTyping
    /\ streamingMessage # <<>> \/ streamingReasoning # <<>>
    /\ abortController # 0
    /\ AbortCurrent(abortController)
    /\ UNCHANGED <<messages, isTyping, streamingMessage, streamingReasoning,
                   streamingMessageId, abortController, timers, reqs,
                   settledAs>>
    /\ UNCHANGED ChatOthers

\* clearChat, from the Clear button (enabled while there are messages)
ClearChat ==
    /\ Quiet
    /\ messages # <<>>
    /\ messages' = <<>>
    /\ streamingMessage' = <<>>
    /\ streamingReasoning' = <<>>
    /\ AbortCurrent(abortController)
    /\ UNCHANGED <<isTyping, streamingMessageId, abortController, timers,
                   reqs, settledAs>>
    /\ UNCHANGED ChatOthers

\* handleLoadChat: the stored chat replaces the messages and the request of
\* the controller is aborted; the storage read is taken to resolve before
\* anything else happens in the panel
LoadChat ==
    /\ Quiet
    /\ messages' = SavedChat
    /\ streamingMessage' = <<>>
    /\ streamingReasoning' = <<>>
    /\ streamingMessageId' = 0
    /\ isTyping' = FALSE
    /\ AbortCurrent(abortController)
    /\ abortController' = 0
    /\ UNCHANGED <<timers, reqs, settledAs>>
    /\ UNCHANGED ChatOthers

ChatNext ==
    \/ Send
    \/ RegenerateClick
    \/ RegenerateFromHereClick
    \/ TimerFire
    \/ Token
    \/ Resolve
    \/ Fail
    \/ AbortSettle
    \/ Cancel
    \/ ClearChat
    \/ LoadChat

\* no call of sendMessage is being followed
StreamIdle ==
    /\ client = "lmstudio"
    /\ onToken = TRUE
    /\ hasBody = TRUE
    /\ frames = <<>>
    /\ doc = InvalidDoc
    /\ source = <<>>
    /\ pc = "idle"
    /\ fullContent = <<>>
    /\ fullReasoning = <<>>
    /\ calls = <<>>
    /\ log = <<>>
    /\ requests = <<>>
    /\ aborted = FALSE
    /\ callsAtAbort = 0
    /\ result = NoResult
    /\ error = "none"

\* the panel as mounted
ChatInit == StreamIdle /\ ChatIdle /\ StoreIdle /\ EventIdle /\ RestIdle

SpecChat == ChatInit /\ [][ChatNext]_vars


(***************************************************************************)
(* Claims about the chat panel                                             *)
(***************************************************************************)

\* the requests the provider is serving
InFlight == {i \in 1..Len(reqs) : Live(i)}

\* C11: in one ChatInterface at most one chat request is in flight at any
\* time, whatever the user does: handleSendMessage never issues a request
\* while an earlier one has not settled.
C11_OneRequestInFlight == Cardinality(InFlight) <= 1

\* request i settles in this step with a failure
Fails(i) ==
    /\ reqs[i].status = "inflight"
    /\ reqs'[i].status = "settled"
    /\ settledAs' # "done"

C12_Step ==
    \A i \in 1..Len(reqs) :
       Fails(i) =>
          /\ Aborted(i) => settledAs' = "AbortError"
          /\ settledAs' = "AbortError" => messages' = messages
          /\ settledAs' # "AbortError" =>
                messages' = Append(messages, Msg("assistant", ErrorText))

\* C12: when a request started by handleSendMessage fails, the generic
\* error message is appended if and only if the failure is not a user
\* cancellation: an aborted request appends no message at all, every other
\* failure appends exactly one error message.
C12_ErrorUnlessCancelled == [][C12_Step]_vars

\* a cancelled request has just settled after an earlier one failed: the one
\* error message is the earlier failure's, the cancelled request left its
\* user message last
C12_Witness ==
    /\ settledAs = "AbortError"
    /\ messages # <<>>
    /\ messages[Len(messages)].role = "user"
    /\ Cardinality({k \in 1..Len(messages) : messages[k].content = ErrorText}) = 1

\* request i is served before and after the step
StaysLive(i) ==
    /\ Live(i)
    /\ reqs'[i].status = "inflight"
    /\ reqs'[i].ctrl \notin ctrlAborted'

C13_Step ==
    /\ \A i \in 1..Len(reqs) :
          StaysLive(i) =>
             /\ IsPrefix(reqs[i].fullResponse, reqs'[i].fullResponse)
             /\ IsPrefix(reqs[i].fullReasoning, reqs'[i].fullReasoning)
             /\ IsPrefix(streamingMessage, streamingMessage')
             /\ IsPrefix(streamingReasoning, streamingReasoning')
    /\ Len(reqs') > Len(reqs) =>
          /\ reqs'[Len(reqs')].fullResponse = <<>>
          /\ reqs'[Len(reqs')].fullReasoning = <<>>
          /\ streamingMessage' = <<>>
          /\ streamingReasoning' = <<>>

\* C13: within one stream the accumulated content and reasoning only grow
\* by appending, in the request's own accumulators and in the panel's
\* streamingMessage and streamingReasoning alike, and all are empty when a
\* request starts.
C13_MonotoneAccumulation == [][C13_Step]_vars

\* C20: the request that a regenerate click results in carries exactly the
\* messages left by the truncation followed by the user message's content.
C20_RegenerateSendsTruncated ==
    \A i \in 1..Len(reqs) :
       (reqs[i].status = "inflight" /\ reqs[i].origin = "regenerate")
          => reqs[i].history = reqs[i].expected

\* request i finishes in this step: its promise settled and the catch and
\* finally blocks of its handleSendMessage ran
Finishes(i) ==
    /\ reqs[i].status = "inflight"
    /\ reqs'[i].status = "settled"

C25_Step ==
    (\E i \in 1..Len(reqs) : Finishes(i)) =>
       /\ settledAs' \in {"done", "AbortError"} \cup Failures
       /\ isTyping' = FALSE
       /\ streamingMessage' = <<>>
       /\ streamingReasoning' = <<>>
       /\ streamingMessageId' = 0
       /\ abortController' = 0

\* C25: whatever the outcome of a handleSendMessage invocation that passed
\* its entry guard (success, provider failure, abort), when it finishes
\* isTyping is false, streamingMessage and streamingReasoning are empty,
\* streamingMessageId is null and abortController is null.
C25_ReturnsToIdle == [][C25_Step]_vars

\* a request has failed and settled, and the panel is idle again with
\* the error message last in the chat
C25_Witness ==
    /\ settledAs \in Failures
    /\ \A i \in 1..Len(reqs) : reqs[i].status = "settled"
    /\ messages # <<>>
    /\ messages[Len(messages)].content = ErrorText
    /\ ~isTyping
    /\ streamingMessage = <<>>
    /\ streamingReasoning = <<>>
    /\ streamingMessageId = 0
    /\ abortController = 0

\* the requests that clearChat or handleLoadChat leaves running
Survives(i) ==
    /\ reqs[i].status = "inflight"
    /\ reqs'[i].status = "inflight"
    /\ reqs'[i].ctrl \notin ctrlAborted'

C22_Step ==
    (ClearChat \/ LoadChat) => \A i \in 1..Len(reqs) : ~Survives(i)

\* C22: when clearChat or handleLoadChat runs while a chat request is in
\* flight, that request is aborted, so that nothing originating from it is
\* appended after the clear or load.
C22_ClearAbortsRequest == [][C22_Step]_vars


(***************************************************************************)
(* Storage: ExtensionStorageUtil (storageUtil), SettingsManager, the       *)
(* options page's SettingsTab, TabSessionsFeature and the popup's          *)
(* saveAllTabs.  chrome.storage fires onChanged after a write that changed *)
(* a value; the event is delivered before the next operation on storage.   *)
(***************************************************************************)

\* at most this many sessions are saved from the popup
MaxSessions == 1

\* the ids (Date.now().toString()) of the sessions the popup saves, in order
SessionIds == <<"s1", "s2", "s3">>

\* the order in which the provider ids of a settings object are written
ProviderOrder == <<"lmstudio", "ollama", "custom-1">>

Elems(list) == {list[i] : i \in 1..Len(list)}

IsIn(ps, p) == p \in ps

\* JSON.stringify of a value
Stringify(v) ==
    CASE v.type = "null" -> <<"null">>
      [] v.type = "string" ->
            IF v.text = "" THEN <<"\"", "\"">> ELSE <<"\"", v.text, "\"">>
      [] v.type \in {"number", "boolean"} -> <<v.text>>
      [] v.type = "object" ->
            <<"{", "providers">>
               \o SelectSeq(ProviderOrder, LAMBDA p : IsIn(v.providers, p))
               \o <<"theme", v.text, "}">>
      [] v.type = "array" -> <<"[">> \o v.list \o <<"]">>
      [] OTHER -> <<"undefined">>

\* JSON.parse of a stored text; get returns the text itself when it does not parse
ParseStored(text) ==
    LET n == Len(text) IN
    CASE text = <<"null">> -> JNull
      [] text \in {<<"true">>, <<"false">>} -> JBoolean(text[1])
      [] text \in {<<"0">>, <<"5">>} -> JNumber(text[1])
      [] text[1] = "\"" /\ text[n] = "\"" /\ n = 2 -> JString("")
      [] text[1] = "\"" /\ text[n] = "\"" /\ n = 3 -> JString(text[2])
      [] text[1] = "{" /\ text[n] = "}" /\ n >= 5 ->
            Settings({text[i] : i \in 3..(n - 3)}, text[n - 1])
      [] text[1] = "[" /\ text[n] = "]" /\ n >= 2 -> Sessions(SubSeq(text, 2, n - 1))
      [] OTHER -> JString(text[1])

\* storageUtil.get(key)
StorageGet(key) ==
    IF extension
       THEN Nullish(chromeLocal[GetKey(key)])
       ELSE LET stored == localStore[GetKey(key)] IN
            IF stored # <<>> THEN ParseStored(stored) ELSE JNull

NoGet == [key |-> <<>>, value |-> JNull]

\* the onChanged event of a write of value to the stored key
Change(key, value) ==
    IF extension /\ chromeLocal[key] # value
       THEN <<[key |-> key, newValue |-> value]>>
       ELSE <<>>

\* storageUtil.set(key, value)
StorageSet(key, value) ==
    /\ chromeLocal' = IF extension
                         THEN [chromeLocal EXCEPT ![GetKey(key)] = value]
                         ELSE chromeLocal
    /\ localStore' = IF extension
                        THEN localStore
                        ELSE [localStore EXCEPT ![GetKey(key)] = Stringify(value)]
    /\ pending' = Change(GetKey(key), value)
    /\ written' = [written EXCEPT ![key] = value]
    /\ got' = NoGet

\* storageUtil.remove(key)
StorageRemove(key) ==
    /\ chromeLocal' = IF extension
                         THEN [chromeLocal EXCEPT ![GetKey(key)] = JUndefined]
                         ELSE chromeLocal
    /\ localStore' = IF extension
                        THEN localStore
                        ELSE [localStore EXCEPT ![GetKey(key)] = <<>>]
    /\ pending' = Change(GetKey(key), JUndefined)
    /\ written' = [written EXCEPT ![key] = Removed]
    /\ got' = NoGet

\* the values a component stores under the theme key
JSONValues == {JNull, JString(""), JString("dark"), JNumber("0")}

\* what a user of the version before the prefixed keys had stored
LegacySettings == Settings({"lmstudio", "custom-0"}, "dark")
LegacySessions == Sessions(<<"old">>)

StoreInit ==
    /\ extension \in BOOLEAN
    /\ legacy \in {[k \in RawKeys |-> JUndefined],
                   [k \in RawKeys |->
                       IF k = EXTENSION_SETTINGS THEN LegacySettings
                       ELSE IF k = TAB_SESSIONS THEN LegacySessions
                       ELSE JUndefined]}
    /\ chromeLocal = [k \in StoredKeys |->
                         IF extension /\ k \in RawKeys THEN legacy[k] ELSE JUndefined]
    /\ localStore = [k \in StoredKeys |->
                        IF ~extension /\ k \in RawKeys /\ legacy[k] # JUndefined
                           THEN Stringify(legacy[k])
                           ELSE <<>>]
    /\ pending = <<>>
    /\ written = [k \in RawKeys |-> Never]
    /\ got = NoGet
    /\ mgrSettings = DefaultSettings
    /\ loaded = FALSE
    /\ deleted = {}
    /\ tabSettings = EmptySettings
    /\ tabListening = FALSE
    /\ lastSaved = Never
    /\ sessions = <<>>
    /\ featureMounted = FALSE
    /\ savedByPopup = {}
    /\ StreamIdle
    /\ ChatIdle
    /\ EventIdle
    /\ RestIdle

\* a component calls storageUtil.set on the theme key
UtilSet ==
    /\ pending = <<>>
    /\ \E v \in JSONValues : StorageSet(THEME, v)
    /\ UNCHANGED <<extension, legacy, mgrSettings, loaded, deleted, tabSettings,
                   tabListening, lastSaved, sessions, featureMounted,
                   savedByPopup>>
    /\ UNCHANGED StoreOthers

\* a component calls storageUtil.remove on the theme key
UtilRemove ==
    /\ pending = <<>>
    /\ written[THEME] \notin {Never, Removed}
    /\ StorageRemove(THEME)
    /\ UNCHANGED <<extension, legacy, mgrSettings, loaded, deleted, tabSettings,
                   tabListening, lastSaved, sessions, featureMounted,
                   savedByPopup>>
    /\ UNCHANGED StoreOthers

\* a component calls storageUtil.get
UtilGet ==
    /\ pending = <<>>
    /\ \E k \in RawKeys : got' = [key |-> k, value |-> StorageGet(k)]
    /\ UNCHANGED <<extension, chromeLocal, localStore, pending, written, legacy,
                   mgrSettings, loaded, deleted, tabSettings, tabListening,
                   lastSaved, sessions, featureMounted, savedByPopup>>
    /\ UNCHANGED StoreOthers

\* what loadSettings returns in a manager whose settings are current; no
\* value of the model has the fields of the old format (aiProvider,
\* lmStudioUrl), so the branch that migrates them is never taken
LoadResult(current) ==
    LET loadedSettings == StorageGet(EXTENSION_SETTINGS) IN
    IF JTruthy(loadedSettings)
       THEN Settings(DefaultProviders \cup loadedSettings.providers,
                     loadedSettings.text)
       ELSE current

\* SettingsManager.loadSettings
LoadSettings ==
    /\ pending = <<>>
    /\ mgrSettings' = LoadResult(mgrSettings)
    /\ loaded' = TRUE
    /\ got' = [key |-> EXTENSION_SETTINGS, value |-> StorageGet(EXTENSION_SETTINGS)]
    /\ UNCHANGED <<extension, chromeLocal, localStore, pending, written, legacy,
                   deleted, tabSettings, tabListening, lastSaved, sessions,
                   featureMounted, savedByPopup>>
    /\ UNCHANGED StoreOthers

\* SettingsManager.saveSettings with a complete settings object
SaveSettings(newSettings) ==
    /\ mgrSettings' = newSettings
    /\ StorageSet(EXTENSION_SETTINGS, newSettings)
    /\ lastSaved' = IF tabListening THEN newSettings ELSE lastSaved
    /\ loaded' = FALSE

\* SettingsManager.addProvider
AddProvider ==
    /\ pending = <<>>
    /\ "custom-1" \notin mgrSettings.providers
    /\ SaveSettings(Settings(mgrSettings.providers \cup {"custom-1"},
                             mgrSettings.text))
    /\ deleted' = deleted \ {"custom-1"}
    /\ UNCHANGED <<extension, legacy, tabSettings, tabListening, sessions,
                   featureMounted, savedByPopup>>
    /\ UNCHANGED StoreOthers

\* SettingsManager.deleteProvider
DeleteProvider ==
    /\ pending = <<>>
    /\ \E id \in mgrSettings.providers :
          /\ SaveSettings(Settings(mgrSettings.providers \ {id}, mgrSettings.text))
          /\ deleted' = deleted \cup {id}
    /\ UNCHANGED <<extension, legacy, tabSettings, tabListening, sessions,
                   featureMounted, savedByPopup>>
    /\ UNCHANGED StoreOthers

\* SettingsTab mounts: it loads the settings through the options page's own
\* manager and registers handleStorageChange
TabMount ==
    /\ pending = <<>>
    /\ ~tabListening
    /\ tabSettings' = LoadResult(DefaultSettings)
    /\ tabListening' = TRUE
    /\ lastSaved' = Never
    /\ UNCHANGED <<extension, chromeLocal, localStore, pending, written, got,
                   legacy, mgrSettings, loaded, deleted, sessions,
                   featureMounted, savedByPopup>>
    /\ UNCHANGED StoreOthers

\* changes[...].newValue || [] in the listener of TabSessionsFeature
OrEmptyList(v) == IF JTruthy(v) THEN v.list ELSE <<>>

\* TabSessionsFeature mounts: loadSessions and addChangeListener
FeatureMount ==
    /\ pending = <<>>
    /\ ~featureMounted
    /\ sessions' = OrEmptyList(StorageGet(TAB_SESSIONS))
    /\ featureMounted' = TRUE
    /\ got' = [key |-> TAB_SESSIONS, value |-> StorageGet(TAB_SESSIONS)]
    /\ UNCHANGED <<extension, chromeLocal, localStore, pending, written, legacy,
                   mgrSettings, loaded, deleted, tabSettings, tabListening,
                   lastSaved, savedByPopup>>
    /\ UNCHANGED StoreOthers

\* sessions.filter(session => session.id !== sessionId)
Without(list, id) == SelectSeq(list, LAMBDA x : x # id)

\* TabSessionsFeature.deleteSession
FeatureDelete ==
    /\ pending = <<>>
    /\ featureMounted
    /\ \E id \in Elems(sessions) :
          /\ StorageSet(TAB_SESSIONS, Sessions(Without(sessions, id)))
          /\ sessions' = Without(sessions, id)
    /\ UNCHANGED <<extension, legacy, mgrSettings, loaded, deleted, tabSettings,
                   tabListening, lastSaved, featureMounted, savedByPopup>>
    /\ UNCHANGED StoreOthers

\* TabSessionsFeature imports a session from a file
FeatureImport ==
    /\ pending = <<>>
    /\ featureMounted
    /\ "imported" \notin Elems(sessions)
    /\ StorageSet(TAB_SESSIONS, Sessions(Append(sessions, "imported")))
    /\ sessions' = Append(sessions, "imported")
    /\ UNCHANGED <<extension, legacy, mgrSettings, loaded, deleted, tabSettings,
                   tabListening, lastSaved, featureMounted, savedByPopup>>
    /\ UNCHANGED StoreOthers

\* the popup's saveAllTabs: chrome.storage.local.get(['tabSessions']) and
\* set({ tabSessions: [session, ...existingSessions] })
SaveAllTabs ==
    /\ pending = <<>>
    /\ extension
    /\ Cardinality(savedByPopup) < MaxSessions
    /\ LET session == SessionIds[Cardinality(savedByPopup) + 1]
           updatedSessions ==
               Sessions(<<session>> \o OrEmptyList(chromeLocal[TAB_SESSIONS]))
       IN  /\ chromeLocal' = [chromeLocal EXCEPT ![TAB_SESSIONS] = updatedSessions]
           /\ pending' = Change(TAB_SESSIONS, updatedSessions)
           /\ savedByPopup' = savedByPopup \cup {session}
    /\ UNCHANGED <<extension, localStore, written, got, legacy, mgrSettings,
                   loaded, deleted, tabSettings, tabListening, lastSaved,
                   sessions, featureMounted>>
    /\ UNCHANGED StoreOthers

\* the chrome.storage.onChanged listener of storageUtil, which notifies the
\* listener of TabSessionsFeature
NotifyFeature(e) ==
    sessions' = IF /\ featureMounted
                   /\ StartsWithPrefix(e.key)
                   /\ GetOriginalKey(e.key) = TAB_SESSIONS
                   THEN OrEmptyList(e.newValue)
                   ELSE sessions

\* handleStorageChange of SettingsTab, registered on chrome.storage.onChanged
HandleStorageChange(e) ==
    tabSettings' = IF /\ tabListening
                      /\ e.key = <<"extension-settings">>
                      /\ JTruthy(e.newValue)
                      THEN e.newValue
                      ELSE tabSettings

\* chrome.storage.onChanged fires
Deliver ==
    /\ pending # <<>>
    /\ NotifyFeature(Head(pending))
    /\ HandleStorageChange(Head(pending))
    /\ pending' = Tail(pending)
    /\ UNCHANGED <<extension, chromeLocal, localStore, written, got, legacy,
                   mgrSettings, loaded, deleted, tabListening, lastSaved,
                   featureMounted, savedByPopup>>
    /\ UNCHANGED StoreOthers

StoreNext ==
    \/ UtilSet
    \/ UtilRemove
    \/ UtilGet
    \/ LoadSettings
    \/ AddProvider
    \/ DeleteProvider
    \/ TabMount
    \/ FeatureMount
    \/ FeatureDelete
    \/ FeatureImport
    \/ SaveAllTabs
    \/ Deliver

SpecStorage == StoreInit /\ [][StoreNext]_vars


(***************************************************************************)
(* Claims about storage                                                    *)
(***************************************************************************)

\* what TabSessionsFeature.loadSessions returns
LoadSessions == OrEmptyList(StorageGet(TAB_SESSIONS))

\* C14: a session saved with the popup's Save All Tabs button is visible in
\* the Saved Tab Sessions feature: loadSessions returns a list that contains
\* it, and so does the list the mounted feature shows once the change event
\* is delivered.
C14_SavedSessionVisible ==
    pending = <<>> =>
       \A s \in savedByPopup :
          /\ s \in Elems(LoadSessions)
          /\ featureMounted => s \in Elems(sessions)

\* the key under which the claim says key is stored
Prefixed(key) == <<"lazyloadbox-emma-ext-">> \o key

\* what get returns after the last write of the key
Expected(key) == IF written[key] = Removed THEN JNull ELSE written[key]

\* C15: a key written through storageUtil is stored under
\* 'lazyloadbox-emma-ext-' + key and round-trips: after set(k, v) get(k)
\* returns v, after remove(k) get(k) returns null, with chrome.storage and
\* with the localStorage fallback alike.
C15_PrefixedRoundTrip ==
    \A k \in RawKeys :
       written[k] # Never =>
          /\ StorageGet(k) = Expected(k)
          /\ got.key = k => got.value = Expected(k)
          /\ extension =>
                chromeLocal[Prefixed(k)] =
                   (IF written[k] = Removed THEN JUndefined ELSE written[k])
          /\ ~extension =>
                localStore[Prefixed(k)] =
                   (IF written[k] = Removed THEN <<>> ELSE Stringify(written[k]))

\* the empty string, a falsy value, was set and read back through localStorage
C15_Witness ==
    /\ ~extension
    /\ written[THEME] = JString("")
    /\ got = [key |-> THEME, value |-> JString("")]

\* C16: data stored under a legacy unprefixed key before the prefixed keys
\* were introduced is returned by storageUtil.get for that key, and by
\* loadSettings, once the new code runs.
C16_LegacyDataMigrated ==
    \A k \in RawKeys :
       (legacy[k] # JUndefined /\ written[k] = Never) =>
          /\ got.key = k => got.value = legacy[k]
          /\ (k = EXTENSION_SETTINGS /\ loaded) =>
                /\ legacy[k].providers \subseteq mgrSettings.providers
                /\ mgrSettings.text = legacy[k].text

\* C17: whenever saveSettings persists new settings, the storage-change
\* handler of the mounted SettingsTab fires and the settings the tab shows
\* become the stored value.
C17_SettingsTabInSync ==
    (extension /\ tabListening /\ lastSaved # Never /\ pending = <<>>)
       => tabSettings = lastSaved

\* C19: deleting a provider is permanent: after deleteProvider(id) the id is
\* absent from the providers every later loadSettings returns, until it is
\* added again.
C19_DeleteIsPermanent ==
    loaded => deleted \cap mgrSettings.providers = {}


(***************************************************************************)
(* The page-capture event: the popup's sendEvent, the side panel's         *)
(* handlePageMarkdownEvent and the actionEvent effect of ChatInterface.    *)
(* The side panel is open when the event is sent.                          *)
(***************************************************************************)

\* the effect appends the page message at most this many times
MaxAppends == 2

\* the message createChatMessage builds from the captured page
PageMessage ==
    [role |-> "user", content |-> <<"page">>, type |-> "markdown", url |-> "u"]

\* the effect's test for a message that is already in the chat
HasExistingMessage ==
    \E k \in 1..Len(messages) :
       /\ messages[k].content = PageMessage.content
       /\ messages[k].type = "markdown"
       /\ messages[k].url = PageMessage.url

\* handleCapturePageContent calls eventManager.sendEvent: the event is
\* written to chrome.storage.local as lastAction and sent as a runtime message
SendEvent ==
    /\ ~sent
    /\ sent' = TRUE
    /\ channels' = {"storage", "runtime"}
    /\ UNCHANGED <<actionEvent, clearTimers, effectDeps, appended>>
    /\ UNCHANGED <<streamVars, chatVars, storeVars, restVars>>

\* a channel delivers the event to the side panel: handlePageMarkdownEvent
Receive ==
    /\ \E ch \in channels :
          /\ channels' = channels \ {ch}
          /\ actionEvent' = ch
    /\ clearTimers' = clearTimers + 1
    /\ UNCHANGED <<sent, effectDeps, appended>>
    /\ UNCHANGED <<streamVars, chatVars, storeVars, restVars>>

\* a one-second timer of handlePageMarkdownEvent fires: setCurrentEvent(null)
TimerClear ==
    /\ clearTimers > 0
    /\ clearTimers' = clearTimers - 1
    /\ actionEvent' = "null"
    /\ UNCHANGED <<sent, channels, effectDeps, appended>>
    /\ UNCHANGED <<streamVars, chatVars, storeVars, restVars>>

\* the effect with the dependencies [actionEvent, messages] runs after a
\* render in which one of them changed
Effect ==
    /\ effectDeps # <<actionEvent, messages>>
    /\ effectDeps' = <<actionEvent, messages>>
    /\ IF actionEvent # "null" /\ ~HasExistingMessage
          THEN /\ appended < MaxAppends
               /\ messages' = Append(messages, PageMessage)
               /\ appended' = appended + 1
          ELSE UNCHANGED <<messages, appended>>
    /\ UNCHANGED <<sent, channels, actionEvent, clearTimers>>
    /\ UNCHANGED <<isTyping, streamingMessage, streamingReasoning,
                   streamingMessageId, abortController, timers, reqs,
                   settledAs, ctrlAborted>>
    /\ UNCHANGED <<streamVars, storeVars, restVars>>

EventNext ==
    \/ SendEvent
    \/ Receive
    \/ TimerClear
    \/ Effect
    \/ ClearChat
    \/ LoadChat

\* the side panel as mounted
EventInit == StreamIdle /\ ChatIdle /\ StoreIdle /\ EventIdle /\ RestIdle

SpecEvents == EventInit /\ [][EventNext]_vars

\* C18: a page-capture event sent once by the popup results in exactly one
\* message appended to the side panel's chat: neither the second channel nor
\* a later run of the effect while the event is still set appends it again.
C18_OnePageMessage == appended <= 1

(***************************************************************************)
(* TabSessionsFeature: the domain filter, the deletion of a session or of  *)
(* one tab through the confirmation dialog, and the import of an export    *)
(* file.  A string that the code lower-cases or searches is a sequence of  *)
(* pieces; a tab index is the index of JavaScript, from 0.                 *)
(***************************************************************************)

\* a stored session holds at most this many tabs when the page is opened
MaxTabs == 2

\* importSessions generates ids at most this many times
MaxImports == 2

\* TabData; the favicon plays no part
Tab(url, title, domain) == [url |-> url, title |-> title, domain |-> domain]

TabUniverse == {Tab("u1", "A", <<"a">>), Tab("u2", "B", <<"b">>)}

TabSeqs(n) == UNION {[1..k -> TabUniverse] : k \in 0..n}

\* TabSession; createdAt plays no part
Session(id, name, tabs) == [id |-> id, name |-> name, tabs |-> tabs]

\* String.prototype.toLowerCase, piece by piece
LowerPiece(p) ==
    CASE p = "A" -> "a"
      [] p = "W" -> "w"
      [] p = " (Imported)" -> " (imported)"
      [] OTHER -> p

ToLowerCase(s) == [i \in DOMAIN s |-> LowerPiece(s[i])]

\* String.prototype.includes
Includes(s, sub) ==
    \E i \in 0..(Len(s) - Len(sub)) : SubSeq(s, i + 1, i + Len(sub)) = sub

\* what the user types into the filter input; the Clear button sets ''
FilterInputs == {<<>>, <<"A">>, <<"b">>}

\* const filteredSessions: the sessions as the page lists them
FilteredSessions ==
    LET Matches(tab) ==
            Includes(ToLowerCase(tab.domain), ToLowerCase(filterDomain))
        mapped == [i \in DOMAIN sessionList |->
                      [sessionList[i] EXCEPT !.tabs =
                          IF filterDomain # <<>> THEN SelectSeq(@, Matches)
                                                 ELSE @]]
    IN  SelectSeq(mapped, LAMBDA x : filterDomain = <<>> \/ x.tabs # <<>>)

\* tabs.filter((_, index) => index !== tabIndex)
FilterIndex(tabs, tabIndex) ==
    IF tabIndex \in 0..(Len(tabs) - 1)
       THEN SubSeq(tabs, 1, tabIndex) \o SubSeq(tabs, tabIndex + 2, Len(tabs))
       ELSE tabs

\* the ids of importSessions: Date.now() with a random suffix, all distinct
ImportedId(n) == <<"imported", n>>

\* the names of the sessions in export files
ImportNames == {<<"w">>, <<"X">>}

\* the tabs of a session in an export file
FileTabSeqs == TabSeqs(1) \cup {<<Tab("u1", "A", <<"a">>), Tab("u2", "B", <<"b">>)>>}

\* the parsed export files: an invalid one, and the valid ones with no, one
\* or two sessions
ImportFiles ==
    {[valid |-> FALSE, sessions |-> <<>>]} \cup
    {[valid |-> TRUE, sessions |-> ss] :
        ss \in UNION {[1..k -> {Session(<<"file", 0>>, n, tabs) :
                                   n \in ImportNames, tabs \in FileTabSeqs}] :
                         k \in {0, 1, 2}}}

DeduplicatedSessionsMut(existing, imported, n) ==
    LET names == {existing[i].name : i \in DOMAIN existing}
        fresh == SelectSeq(imported, LAMBDA s : s.name \notin names)
    IN  [i \in DOMAIN fresh |->
            Session(ImportedId(n + i), fresh[i].name \o <<" (Imported)">>,
                    fresh[i].tabs)]

\* const deduplicatedSessions of importSessions, the n-th id being the last
\* one generated before
DeduplicatedSessions(existing, imported, n) ==
    LET existingSessionNames ==
            {ToLowerCase(existing[i].name) : i \in DOMAIN existing}
        existingUrls ==
            UNION {{existing[i].tabs[k].url : k \in DOMAIN existing[i].tabs} :
                      i \in DOMAIN existing}
        fresh == SelectSeq(imported, LAMBDA s :
                    /\ ToLowerCase(s.name) \notin existingSessionNames
                    /\ ToLowerCase(s.name \o <<" (imported)">>)
                          \notin existingSessionNames)
        renamed == [i \in DOMAIN fresh |->
                       Session(ImportedId(n + i),
                               fresh[i].name \o <<" (Imported)">>,
                               SelectSeq(fresh[i].tabs,
                                         LAMBDA t : t.url \notin existingUrls))]
    IN  SelectSeq(renamed, LAMBDA s : s.tabs # <<>>)

\* const updatedSessions of importSessions, or the sessions as they are when
\* the file is rejected or holds nothing new
UpdatedSessions(existing, file, n) ==
    LET deduplicatedSessions ==
            DeduplicatedSessions(existing, file.sessions, n)
    IN  IF file.valid /\ deduplicatedSessions # <<>>
           THEN existing \o deduplicatedSessions
           ELSE existing

\* the page after loadSessions: nothing is stored, or one session saved by
\* the popup
TabsInit ==
    /\ StreamIdle
    /\ ChatIdle
    /\ StoreIdle
    /\ EventIdle
    /\ AreasIdle
    /\ ListenersIdle
    /\ SavedIdle
    /\ \E stored \in {<<>>} \cup {<<Session(<<"s", 1>>, <<"W">>, tabs)>> :
                                    tabs \in TabSeqs(MaxTabs)} :
          /\ sessionList = stored
          /\ tabSessions = stored
    /\ filterDomain = <<>>
    /\ deleteDialogOpen = FALSE
    /\ deleteTarget = NoTarget
    /\ importedIds = 0

TabsOthers ==
    <<streamVars, chatVars, storeVars, eventVars, areaVars, listenerVars,
      savedVars>>

\* the filter input changes, or its Clear button is clicked
SetFilterDomain ==
    /\ ~deleteDialogOpen
    /\ \E d \in FilterInputs :
          /\ d # filterDomain
          /\ filterDomain' = d
    /\ UNCHANGED <<sessionList, tabSessions, deleteDialogOpen, deleteTarget,
                   importedIds>>
    /\ UNCHANGED TabsOthers

\* the user clicks "Delete session" on a listed session
ConfirmDeleteSession ==
    /\ ~deleteDialogOpen
    /\ \E i \in DOMAIN FilteredSessions :
          deleteTarget' = [type |-> "session",
                           sessionId |-> FilteredSessions[i].id,
                           tabIndex |-> -1,
                           name |-> FilteredSessions[i].name]
    /\ deleteDialogOpen' = TRUE
    /\ UNCHANGED <<sessionList, tabSessions, filterDomain, importedIds>>
    /\ UNCHANGED TabsOthers

\* the user clicks "Delete this tab" in a listed row: the row passes the
\* index of the tab in the listed tabs of its session
ConfirmDeleteTab ==
    /\ ~deleteDialogOpen
    /\ \E i \in DOMAIN FilteredSessions :
          \E index \in 0..(Len(FilteredSessions[i].tabs) - 1) :
             deleteTarget' = [type |-> "tab",
                              sessionId |-> FilteredSessions[i].id,
                              tabIndex |-> index,
                              name |-> FilteredSessions[i].tabs[index + 1].title]
    /\ deleteDialogOpen' = TRUE
    /\ UNCHANGED <<sessionList, tabSessions, filterDomain, importedIds>>
    /\ UNCHANGED TabsOthers

\* Cancel in the dialog, or a click beside it
CancelDelete ==
    /\ deleteDialogOpen
    /\ deleteDialogOpen' = FALSE
    /\ UNCHANGED <<sessionList, tabSessions, filterDomain, deleteTarget,
                   importedIds>>
    /\ UNCHANGED TabsOthers

\* executeDelete, from the Delete button of the dialog
ExecuteDelete ==
    /\ deleteDialogOpen
    /\ deleteTarget # NoTarget
    /\ LET updatedSessions ==
              IF deleteTarget.type = "session"
                 THEN SelectSeq(sessionList,
                                LAMBDA s : s.id # deleteTarget.sessionId)
                 ELSE [i \in DOMAIN sessionList |->
                          IF sessionList[i].id = deleteTarget.sessionId
                             THEN [sessionList[i] EXCEPT !.tabs =
                                      FilterIndex(@, deleteTarget.tabIndex)]
                             ELSE sessionList[i]]
       IN  /\ tabSessions' = updatedSessions
           /\ sessionList' = updatedSessions
    /\ deleteDialogOpen' = FALSE
    /\ deleteTarget' = NoTarget
    /\ UNCHANGED <<filterDomain, importedIds>>
    /\ UNCHANGED TabsOthers

\* importSessions with the file the user picked
ImportSessions ==
    /\ ~deleteDialogOpen
    /\ importedIds < MaxImports
    /\ \E file \in ImportFiles :
          /\ sessionList' = UpdatedSessions(sessionList, file, importedIds)
          /\ tabSessions' = sessionList'
          /\ importedIds' = importedIds + Len(sessionList') - Len(sessionList)
    /\ UNCHANGED <<filterDomain, deleteDialogOpen, deleteTarget>>
    /\ UNCHANGED TabsOthers

TabsNext ==
    \/ SetFilterDomain
    \/ ConfirmDeleteSession
    \/ ConfirmDeleteTab
    \/ CancelDelete
    \/ ExecuteDelete
    \/ ImportSessions

SpecTabs == TabsInit /\ [][TabsNext]_vars

\* tab k of before is the one titled title, and after is before without it
WithoutTab(before, after, title) ==
    \E k \in 1..Len(before) :
       /\ before[k].title = title
       /\ after = SubSeq(before, 1, k - 1) \o SubSeq(before, k + 1, Len(before))

C21_Step ==
    (ExecuteDelete /\ deleteTarget.type = "tab") =>
       /\ Len(tabSessions') = Len(tabSessions)
       /\ \A i \in DOMAIN tabSessions :
             IF tabSessions[i].id = deleteTarget.sessionId
                THEN /\ tabSessions'[i].id = tabSessions[i].id
                     /\ WithoutTab(tabSessions[i].tabs, tabSessions'[i].tabs,
                                   deleteTarget.name)
                ELSE tabSessions'[i] = tabSessions[i]

\* C21: confirming the deletion of a tab removes from the stored session
\* exactly the tab the user clicked, the one whose title the dialog shows,
\* and no other tab, also while a domain filter is active.
C21_DeletesClickedTab == [][C21_Step]_vars

\* C26: importing a valid export file again directly after it was imported
\* adds no session and no tab: the second import leaves the sessions, and
\* so the stored value, as the first one left them.
C26_ImportIdempotent ==
    \A file \in ImportFiles :
       file.valid =>
          LET once == UpdatedSessions(sessionList, file, importedIds)
              ids == importedIds + Len(once) - Len(sessionList)
          IN  UpdatedSessions(once, file, ids) = once

\* an import was applied: the last session is the imported copy of the
\* first session of a file, and importing that file again adds nothing
C26_Witness ==
    /\ importedIds > 0
    /\ tabSessions = sessionList
    /\ \E file \in ImportFiles :
          /\ file.valid
          /\ file.sessions # <<>>
          /\ sessionList[Len(sessionList)].name
                = file.sessions[1].name \o <<" (Imported)">>
          /\ sessionList[Len(sessionList)].tabs = file.sessions[1].tabs
          /\ UpdatedSessions(sessionList, file, importedIds) = sessionList


(***************************************************************************)
(* storageUtil.getAll and storageUtil.clear over the two areas of          *)
(* chrome.storage, or over localStorage outside the extension.  An area    *)
(* also holds keys that storageUtil did not write.                         *)
(***************************************************************************)

\* type StorageArea
StorageAreas == {"local", "sync"}

\* the keys found in an area: the theme key with the prefix and without
\* it, the prefix alone, and a key that holds the prefix but not in front
AreaKeys ==
    {GetKey(THEME), THEME, <<KeyPrefix>>, <<"x-", KeyPrefix>> \o THEME}

\* the values the components store
AreaValues == {JNull, JString("dark")}

\* what an area can hold when the page opens: the values under some of the
\* keys
Contents(values, absent) ==
    {f \in [AreaKeys -> values \cup {absent}] :
        f[<<"x-", KeyPrefix>> \o THEME] = absent \/ f[THEME] = absent}

AreasInit ==
    /\ StreamIdle
    /\ ChatIdle
    /\ StoreIdle
    /\ EventIdle
    /\ TabsIdle
    /\ ListenersIdle
    /\ SavedIdle
    /\ inExtension \in BOOLEAN
    /\ IF inExtension
          THEN /\ chromeAreas \in [StorageAreas -> Contents({JString("dark")}, JUndefined)]
               /\ webItems = [k \in AreaKeys |-> <<>>]
          ELSE /\ chromeAreas = [a \in StorageAreas |-> [k \in AreaKeys |-> JUndefined]]
               /\ webItems \in Contents({Stringify(JString("dark"))}, <<>>)
    /\ allResult = {}
    /\ lastCall = [op |-> "none", area |-> "local", removed |-> 0]

AreasOthers ==
    <<streamVars, chatVars, storeVars, eventVars, tabsVars, listenerVars,
      savedVars>>

\* storageUtil.set(key, value, area)
AreaSet ==
    /\ \E key \in {THEME, <<>>}, value \in AreaValues, area \in StorageAreas :
          /\ IF inExtension
                THEN /\ chromeAreas' =
                           [chromeAreas EXCEPT ![area][GetKey(key)] = value]
                     /\ UNCHANGED webItems
                ELSE /\ webItems' =
                           [webItems EXCEPT ![GetKey(key)] = Stringify(value)]
                     /\ UNCHANGED chromeAreas
          /\ lastCall' = [op |-> "set", area |-> area, removed |-> 0]
    /\ UNCHANGED <<inExtension, allResult>>
    /\ UNCHANGED AreasOthers

\* storageUtil.getAll(area)
GetAll(area) ==
    /\ allResult' =
          IF inExtension
             THEN {[key |-> GetOriginalKey(k), value |-> chromeAreas[area][k]] :
                      k \in {k \in AreaKeys : /\ chromeAreas[area][k] # JUndefined
                                              /\ StartsWithPrefix(k)}}
             ELSE {[key |-> GetOriginalKey(k), value |-> ParseStored(webItems[k])] :
                      k \in {k \in AreaKeys : /\ StartsWithPrefix(k)
                                              /\ webItems[k] # <<>>}}
    /\ lastCall' = [op |-> "getAll", area |-> area, removed |-> 0]
    /\ UNCHANGED <<inExtension, chromeAreas, webItems>>
    /\ UNCHANGED AreasOthers

\* storageUtil.clear(area)
Clear(area) ==
    /\ IF inExtension
          THEN LET keysToRemove ==
                      {k \in AreaKeys : /\ chromeAreas[area][k] # JUndefined
                                        /\ StartsWithPrefix(k)}
               IN  /\ chromeAreas' =
                         [chromeAreas EXCEPT ![area] =
                             [k \in AreaKeys |->
                                 IF k \in keysToRemove THEN JUndefined ELSE @[k]]]
                   /\ lastCall' = [op |-> "clear", area |-> area,
                                   removed |-> Cardinality(keysToRemove)]
                   /\ UNCHANGED webItems
          ELSE LET keysToRemove ==
                      {k \in AreaKeys : webItems[k] # <<>> /\ StartsWithPrefix(k)}
               IN  /\ webItems' = [k \in AreaKeys |->
                                     IF k \in keysToRemove THEN <<>>
                                                           ELSE webItems[k]]
                   /\ lastCall' = [op |-> "clear", area |-> area,
                                   removed |-> Cardinality(keysToRemove)]
                   /\ UNCHANGED chromeAreas
    /\ UNCHANGED <<inExtension, allResult>>
    /\ UNCHANGED AreasOthers

AreasNext ==
    \/ AreaSet
    \/ \E area \in StorageAreas : GetAll(area)
    \/ \E area \in StorageAreas : Clear(area)

SpecAreas == AreasInit /\ [][AreasNext]_vars

\* the key starts with 'lazyloadbox-emma-ext-'
HasPrefix(key) == Len(key) >= 1 /\ key[1] = "lazyloadbox-emma-ext-"

\* the keys of the area, or of localStorage, that hold something
Held(area) ==
    {k \in AreaKeys : IF inExtension THEN chromeAreas[area][k] # JUndefined
                                     ELSE webItems[k] # <<>>}

C27_Step ==
    \A area \in StorageAreas :
       /\ Clear(area) =>
             /\ \A a \in StorageAreas, k \in AreaKeys :
                   chromeAreas'[a][k] =
                      IF inExtension /\ a = area /\ HasPrefix(k)
                         THEN JUndefined ELSE chromeAreas[a][k]
             /\ \A k \in AreaKeys :
                   webItems'[k] =
                      IF ~inExtension /\ HasPrefix(k) THEN <<>> ELSE webItems[k]
       /\ GetAll(area) =>
             /\ {e.key : e \in allResult'} =
                   {SubSeq(k, 2, Len(k)) : k \in {k \in Held(area) : HasPrefix(k)}}
             /\ Cardinality(allResult') =
                   Cardinality({k \in Held(area) : HasPrefix(k)})
             /\ \A e \in allResult' :
                   e.value = IF inExtension
                                THEN chromeAreas[area][<<"lazyloadbox-emma-ext-">> \o e.key]
                                ELSE ParseStored(webItems[<<"lazyloadbox-emma-ext-">> \o e.key])

\* C27: clear(area) removes exactly the keys of that area that start with
\* 'lazyloadbox-emma-ext-' and leaves every other key and its value as it
\* was; getAll(area) returns exactly the prefixed entries of the area with
\* the prefix stripped, and nothing else.
C27_ClearAndGetAllPrefixedOnly == [][C27_Step]_vars

\* clear('local') has removed keys in the extension: the unprefixed theme
\* key is still there, and so is the prefixed one of the sync area
C27_Witness ==
    /\ inExtension
    /\ lastCall.op = "clear"
    /\ lastCall.area = "local"
    /\ lastCall.removed = 2
    /\ chromeAreas["local"][THEME] = JString("dark")
    /\ chromeAreas["local"][GetKey(THEME)] = JUndefined
    /\ chromeAreas["sync"][GetKey(THEME)] = JString("dark")


(***************************************************************************)
(* The change listeners of storageUtil in the extension: addChangeListener *)
(* and removeChangeListener, and the chrome.storage.onChanged handler      *)
(* that initializeStorageListener installs.  A listener is named after     *)
(* what it does when it is called.                                         *)
(***************************************************************************)

\* a listener that returns, one that throws, and one that calls
\* removeChangeListener on itself for the key it was called for
Listeners == {"plain", "throws", "removesItself"}

\* the keys listeners are added for: a key of STORAGE_KEYS and '*'
ALL == <<"*">>
ListenerKeys == {THEME, ALL}

\* the stored keys an onChanged event can report
ChangedKeys == {GetKey(THEME), THEME, GetKey(TAB_SESSIONS)}

\* keyListeners.indexOf(listener) and splice(index, 1)
Splice(keyListeners, listener) ==
    IF \E i \in DOMAIN keyListeners : keyListeners[i] = listener
       THEN LET index == CHOOSE i \in DOMAIN keyListeners :
                            /\ keyListeners[i] = listener
                            /\ \A j \in 1..(i - 1) : keyListeners[j] # listener
            IN  SubSeq(keyListeners, 1, index - 1)
                   \o SubSeq(keyListeners, index + 1, Len(keyListeners))
       ELSE keyListeners

\* for (const listener of keyListeners) { try { listener(...) } catch {} }
\* from position i of the array on: the iterator reads the array as the
\* listeners called so far left it
RECURSIVE Notify(_, _, _, _)
Notify(keyListeners, i, key, made) ==
    IF i > Len(keyListeners)
       THEN [keyListeners |-> keyListeners, calls |-> made]
       ELSE Notify(IF keyListeners[i] = "removesItself"
                      THEN Splice(keyListeners, keyListeners[i])
                      ELSE keyListeners,
                   i + 1, key,
                   Append(made, [listener |-> keyListeners[i], key |-> key]))

ListenersInit ==
    /\ StreamIdle
    /\ ChatIdle
    /\ StoreIdle
    /\ EventIdle
    /\ TabsIdle
    /\ AreasIdle
    /\ SavedIdle
    /\ listeners = [k \in ListenerKeys |-> <<>>]
    /\ invoked = <<>>

ListenersOthers ==
    <<streamVars, chatVars, storeVars, eventVars, tabsVars, areaVars, savedVars>>

\* addChangeListener(key, listener), by a component that has not added the
\* listener for the key
AddChangeListener ==
    /\ \E key \in ListenerKeys, listener \in Listeners :
          /\ \A i \in DOMAIN listeners[key] : listeners[key][i] # listener
          /\ listeners' = [listeners EXCEPT ![key] = Append(@, listener)]
    /\ UNCHANGED invoked
    /\ UNCHANGED ListenersOthers

\* removeChangeListener(key, listener)
RemoveChangeListener ==
    /\ \E key \in ListenerKeys, listener \in Listeners :
          listeners' = [listeners EXCEPT ![key] = Splice(@, listener)]
    /\ UNCHANGED invoked
    /\ UNCHANGED ListenersOthers

\* the handler of chrome.storage.onChanged with the changes of one event
OnChanged(changes) ==
    /\ LET ofKey == IF GetKey(THEME) \in changes
                       THEN Notify(listeners[THEME], 1, THEME, <<>>)
                       ELSE [keyListeners |-> listeners[THEME], calls |-> <<>>]
           filteredChanges == {k \in changes : StartsWithPrefix(k)}
           ofAll == IF filteredChanges # {}
                       THEN Notify(listeners[ALL], 1, ALL, ofKey.calls)
                       ELSE [keyListeners |-> listeners[ALL],
                             calls |-> ofKey.calls]
       IN  /\ listeners' = [k \in ListenerKeys |->
                              IF k = THEME THEN ofKey.keyListeners
                                           ELSE ofAll.keyListeners]
           /\ invoked' = ofAll.calls
    /\ UNCHANGED ListenersOthers

ListenersNext ==
    \/ AddChangeListener
    \/ RemoveChangeListener
    \/ \E changes \in (SUBSET ChangedKeys) \ {{}} : OnChanged(changes)

SpecListeners == ListenersInit /\ [][ListenersNext]_vars

\* how often the listener was called for the key in the event
Invocations(made, listener, key) ==
    Cardinality({i \in DOMAIN made :
                    made[i].listener = listener /\ made[i].key = key})

\* the listener is registered for the key
Registered(listener, key) ==
    \E i \in DOMAIN listeners[key] : listeners[key][i] = listener

C24_Step ==
    \A changes \in (SUBSET ChangedKeys) \ {{}} :
       OnChanged(changes) =>
          \A listener \in Listeners :
             Invocations(invoked', listener, THEME) =
                IF /\ Registered(listener, THEME)
                   /\ <<"lazyloadbox-emma-ext-">> \o THEME \in changes
                   THEN 1 ELSE 0

\* C24: for each storage change event, every listener registered for key K
\* when the event is dispatched is invoked exactly once if the event changes
\* the prefixed key of K and not at all otherwise, a removed listener is not
\* invoked, also when a listener throws or removes itself during the
\* dispatch.
C24_ExactlyOnce == [][C24_Step]_vars


(***************************************************************************)
(* ChatStorageManager in the extension: saveChat, deleteChat and           *)
(* renameChat, one call at a time.  A call is followed through all of its  *)
(* reads and writes of chrome.storage.local; st is what the storage holds: *)
(* the ids with a data record and the list.  The n-th chatKeyId generated  *)
(* is n, so a later chat has the larger id.                                *)
(***************************************************************************)

\* const MAX_SAVED_CHATS, 100 in the program
MAX_SAVED_CHATS == 2

\* at most this many chats are saved
MaxChats == 4

\* the names a chat is saved with, and the ones it is renamed to
ChatNames == {"n1", "n2"}
NewNames == {"n2", "n3"}

\* deleteChat(chatKeyId)
DeleteChat(st, chatKeyId) ==
    [data |-> st.data \ {chatKeyId},
     list |-> SelectSeq(st.list, LAMBDA chat : chat.chatKeyId # chatKeyId)]

\* for (const chat of removedChats) await this.deleteChat(chat.chatKeyId)
RECURSIVE DeleteChats(_, _)
DeleteChats(st, removedChats) ==
    IF removedChats = <<>> THEN st
    ELSE DeleteChats(DeleteChat(st, Head(removedChats).chatKeyId),
                     Tail(removedChats))

UpdateChatListMut(st, chatKeyId, savedChatName) ==
    LET chatList == <<[chatKeyId |-> chatKeyId,
                       savedChatName |-> savedChatName]>> \o st.list
    IN  [data |-> st.data,
         list |-> IF Len(chatList) > MAX_SAVED_CHATS
                     THEN SubSeq(chatList, 1, MAX_SAVED_CHATS)
                     ELSE chatList]

\* updateChatList: the list is read, the new item put in front, the chats
\* beyond the limit deleted, and the list written
UpdateChatList(st, chatKeyId, savedChatName) ==
    LET chatList == <<[chatKeyId |-> chatKeyId,
                       savedChatName |-> savedChatName]>> \o st.list
        removedChats == SubSeq(chatList, MAX_SAVED_CHATS + 1, Len(chatList))
    IN  IF Len(chatList) > MAX_SAVED_CHATS
           THEN [data |-> DeleteChats(st, removedChats).data,
                 list |-> SubSeq(chatList, 1, MAX_SAVED_CHATS)]
           ELSE [data |-> st.data, list |-> chatList]

SavedInit ==
    /\ StreamIdle
    /\ ChatIdle
    /\ StoreIdle
    /\ EventIdle
    /\ TabsIdle
    /\ AreasIdle
    /\ ListenersIdle
    /\ SavedIdle

SavedOthers ==
    <<streamVars, chatVars, storeVars, eventVars, tabsVars, areaVars,
      listenerVars>>

\* saveChat(name, messages)
SaveChat ==
    /\ generated < MaxChats
    /\ \E name \in ChatNames :
          LET chatKeyId == generated + 1
              st == UpdateChatList([data |-> chatData \cup {chatKeyId},
                                    list |-> savedChatList],
                                   chatKeyId, name)
          IN  /\ chatData' = st.data
              /\ savedChatList' = st.list
              /\ generated' = chatKeyId
              /\ evicted' = evicted \cup
                    ({savedChatList[i].chatKeyId : i \in DOMAIN savedChatList}
                        \ {st.list[i].chatKeyId : i \in DOMAIN st.list})
    /\ UNCHANGED SavedOthers

\* deleteChat(chatKeyId) of a chat of the list
DeleteSavedChat ==
    /\ \E i \in DOMAIN savedChatList :
          LET st == DeleteChat([data |-> chatData, list |-> savedChatList],
                               savedChatList[i].chatKeyId)
          IN  /\ chatData' = st.data
              /\ savedChatList' = st.list
    /\ UNCHANGED <<generated, evicted>>
    /\ UNCHANGED SavedOthers

\* renameChat(chatKeyId, newName) of a chat that was saved; it throws
\* 'Chat not found' before it writes when the chat has no data record
RenameChat ==
    /\ \E chatKeyId \in 1..generated, newName \in NewNames :
          /\ chatKeyId \in chatData
          /\ savedChatList' =
                [i \in DOMAIN savedChatList |->
                    IF savedChatList[i].chatKeyId = chatKeyId
                       THEN [savedChatList[i] EXCEPT !.savedChatName = newName]
                       ELSE savedChatList[i]]
    /\ UNCHANGED <<chatData, generated, evicted>>
    /\ UNCHANGED SavedOthers

SavedNext ==
    \/ SaveChat
    \/ DeleteSavedChat
    \/ RenameChat

SpecSaved == SavedInit /\ [][SavedNext]_vars

\* the chatKeyIds of the list
Listed == {savedChatList[i].chatKeyId : i \in DOMAIN savedChatList}

\* C23: after saveChat, deleteChat and renameChat calls run one at a time
\* the list holds at most MAX_SAVED_CHATS entries, the later saved chat
\* before the earlier one and so no chatKeyId twice, and a data record is
\* stored for exactly the chatKeyIds of the list: the data of an evicted
\* chat is deleted and no entry lacks its data.
C23_ListMatchesData ==
    /\ Len(savedChatList) <= MAX_SAVED_CHATS
    /\ \A i, j \in DOMAIN savedChatList :
          i < j => savedChatList[i].chatKeyId > savedChatList[j].chatKeyId
    /\ chatData = Listed

\* the limit has evicted a chat: the list is full with the chat saved last
\* in front
C23_Witness ==
    /\ evicted # {}
    /\ evicted \cap chatData = {}
    /\ Len(savedChatList) = MAX_SAVED_CHATS
    /\ savedChatList[1].chatKeyId = generated

====
